---- MODULE Spec2Model ----
(***************************************************************************)
(* A model of json_CSV_converter.py: the CSV importer, the CSV and JSON    *)
(* exporters and the cell trimming helper.                                  *)
(*                                                                         *)
(* Text is a sequence of one-character strings, so that lower(), len()     *)
(* and slicing are computed character by character.  Python values are     *)
(* tagged records: str, bool, int, None, list, dict and a reference to a   *)
(* dict object on the heap.  A dict is the sequence of its entries in      *)
(* insertion order.                                                        *)
(***************************************************************************)
EXTENDS Integers, Sequences, FiniteSets, TLC

VARIABLES dirExists, file, data, heap, imp, exp, trimmed

vars == <<dirExists, file, data, heap, imp, exp, trimmed>>

----------------------------------------------------------------------------
(* Bounds of the model.                                                    *)

MaxRows == 2
MaxFields == 2
MaxItems == 2
MaxPairs == 3
MaxStrLen == 20
MaxLimit == 10

----------------------------------------------------------------------------
(* Text.                                                                   *)

tEmpty == <<>>
tX == <<"x">>
tA == <<"a">>
tB == <<"b">>
tTrueLower == <<"t", "r", "u", "e">>
tFalseLower == <<"f", "a", "l", "s", "e">>
tTrueUpper == <<"T", "R", "U", "E">>
tFalseMixed == <<"F", "a", "L", "s", "e">>
tTrueStr == <<"T", "r", "u", "e">>
tFalseStr == <<"F", "a", "l", "s", "e">>
tNoneStr == <<"N", "o", "n", "e">>
tTruex == <<"t", "r", "u", "e", "x">>
tEllipsis == <<".", ".", ".">>

lowerChar(c) ==
    CASE c = "T" -> "t" [] c = "R" -> "r" [] c = "U" -> "u" [] c = "E" -> "e"
      [] c = "F" -> "f" [] c = "A" -> "a" [] c = "L" -> "l" [] c = "S" -> "s"
      [] c = "N" -> "n" [] c = "X" -> "x" [] c = "B" -> "b"
      [] OTHER -> c

lower(s) == [i \in 1..Len(s) |-> lowerChar(s[i])]

----------------------------------------------------------------------------
(* Python values.                                                          *)

NoneV == [tag |-> "none"]
StrV(s) == [tag |-> "str", s |-> s]
BoolV(b) == [tag |-> "bool", b |-> b]
IntV(n) == [tag |-> "int", n |-> n]
ListV(xs) == [tag |-> "list", xs |-> xs]
DictV(d) == [tag |-> "dict", d |-> d]
RefV(a) == [tag |-> "ref", a |-> a]

Entry(k, v) == [k |-> k, v |-> v]

DictHas(d, k) == \E i \in 1..Len(d) : d[i].k = k

DictIndex(d, k) == CHOOSE i \in 1..Len(d) : d[i].k = k

\* d.get(k, default)
DictGet(d, k, default) == IF DictHas(d, k) THEN d[DictIndex(d, k)].v ELSE default

\* d[k] = v: an existing key keeps its position, a new key is appended.
DictSet(d, k, v) ==
    IF DictHas(d, k)
    THEN [i \in 1..Len(d) |-> IF d[i].k = k THEN Entry(k, v) ELSE d[i]]
    ELSE Append(d, Entry(k, v))

DictKeys(d) == [i \in 1..Len(d) |-> d[i].k]

RECURSIVE DictFromPairs(_)
\* dict(pairs): later pairs overwrite earlier ones with an equal key.
DictFromPairs(ps) ==
    IF ps = <<>> THEN <<>>
    ELSE DictSet(DictFromPairs(SubSeq(ps, 1, Len(ps) - 1)),
                 ps[Len(ps)].k, ps[Len(ps)].v)

Min(a, b) == IF a < b THEN a ELSE b

----------------------------------------------------------------------------
(* str2bool, lines 12-31.                                                  *)

str2bool(s) ==
    IF lower(s) = tTrueLower THEN BoolV(TRUE)
    ELSE IF lower(s) = tFalseLower THEN BoolV(FALSE)
    ELSE NoneV

----------------------------------------------------------------------------
(* The file at the path handed to the importer or exporter.  A CSV file is *)
(* its size being zero or not, the verdict of csv.Sniffer on its content   *)
(* and the rows csv.reader yields under the sniffed dialect (a blank line  *)
(* is the empty row).  A JSON file is the dumped document.                 *)

NoFile == [kind |-> "none", empty |-> TRUE, sniff |-> FALSE, lines |-> <<>>, doc |-> NoneV]

CsvFile(empty, sniff, lines) ==
    [kind |-> "csv", empty |-> empty, sniff |-> sniff, lines |-> lines, doc |-> NoneV]

JsonFile(doc) ==
    [kind |-> "json", empty |-> FALSE, sniff |-> FALSE, lines |-> <<>>, doc |-> doc]

\* The headers argument: None, or a list of field names.
NoHeaders == [given |-> FALSE, names |-> <<>>]
Headers(names) == [given |-> TRUE, names |-> names]

\* The outcome of a call: it returned a value or raised, and what it printed.
Returned(value, msgs) == [kind |-> "returned", exc |-> "", value |-> value, msgs |-> msgs]
Raised(exc, msgs) == [kind |-> "raised", exc |-> exc, value |-> NoneV, msgs |-> msgs]

----------------------------------------------------------------------------
(* csv.DictReader as used at lines 157-160 (restkey and restval are left   *)
(* at their defaults, None).                                               *)

\* DictReader.fieldnames: the headers argument, else the first row read.
Fieldnames(f, headers) ==
    IF headers.given THEN [i \in 1..Len(headers.names) |-> StrV(headers.names[i])]
    ELSE IF Len(f.lines) > 0
         THEN [i \in 1..Len(f.lines[1]) |-> StrV(f.lines[1][i])]
         ELSE <<>>

\* The rows left to the reader once the field names are known.
DataLines(f, headers) ==
    IF headers.given \/ Len(f.lines) = 0 THEN f.lines
    ELSE SubSeq(f.lines, 2, Len(f.lines))

\* DictReader.__next__ on one non-blank row.
RowDict(fieldnames, row) ==
    LET lf == Len(fieldnames)
        lr == Len(row)
        zipped == DictFromPairs([i \in 1..Min(lf, lr) |-> Entry(fieldnames[i], StrV(row[i]))])
        RECURSIVE Fill(_, _)
        Fill(d, i) == IF i > lf THEN d ELSE Fill(DictSet(d, fieldnames[i], NoneV), i + 1)
    IN  IF lf < lr
        THEN DictSet(zipped, NoneV,
                     ListV([i \in 1..(lr - lf) |-> StrV(row[lf + i])]))
        ELSE IF lf > lr THEN Fill(zipped, lr + 1)
        ELSE zipped

RECURSIVE ReadRows(_, _)
\* list(reader): one dict per row, blank rows skipped.
ReadRows(fieldnames, lines) ==
    IF lines = <<>> THEN <<>>
    ELSE IF Head(lines) = <<>> THEN ReadRows(fieldnames, Tail(lines))
    ELSE <<RowDict(fieldnames, Head(lines))>> \o ReadRows(fieldnames, Tail(lines))

----------------------------------------------------------------------------
(* import_csv_from_disk, lines 112-176.                                    *)

\* Line 170 evaluates v.lower() on every value that is not a list.
LowerRaises(record) ==
    \E i \in 1..Len(record) : record[i].v.tag \notin {"list", "str"}

\* Lines 169-171 on one record.
ConvertRecord(record) ==
    [i \in 1..Len(record) |->
        IF record[i].v.tag # "list" /\ lower(record[i].v.s) \in {tTrueLower, tFalseLower}
        THEN Entry(record[i].k, str2bool(record[i].v.s))
        ELSE record[i]]

\* Lines 143-164: the rows loaded, or None with the message printed.
LoadCsv(f, headers) ==
    IF f.empty THEN [data |-> NoneV, msgs |-> <<"is empty.">>]
    ELSE IF ~f.sniff THEN [data |-> NoneV, msgs |-> <<"exists, but could not load it.">>]
    ELSE [data |-> ListV(ReadRows(Fieldnames(f, headers), DataLines(f, headers))),
          msgs |-> <<>>]

import_csv_from_disk(f, headers) ==
    LET loaded == LoadCsv(f, headers)
        rows == loaded.data.xs
    IN  IF loaded.data # NoneV /\ \E r \in 1..Len(rows) : LowerRaises(rows[r])
        THEN \* line 170: None has no lower()
             Raised("AttributeError", loaded.msgs)
        ELSE IF loaded.data = NoneV
        THEN \* line 173: len(None)
             Raised("TypeError", loaded.msgs)
        ELSE LET conv == [r \in 1..Len(rows) |-> DictV(ConvertRecord(rows[r]))]
             IN  IF Len(conv) = 1
                 THEN Returned(conv[1], loaded.msgs)
                 ELSE Returned(ListV(conv), loaded.msgs)

----------------------------------------------------------------------------
(* enforce_excel_cell_string_limit, lines 252-267.                         *)

\* The helper without the clamp of lines 259-260.
enforce_without_clamp(long_string, limit) ==
    IF Len(long_string) > limit
    THEN SubSeq(long_string, 1, limit - 3) \o tEllipsis
    ELSE long_string

enforce_excel_cell_string_limit(long_string, limit) ==
    LET lim == IF limit <= 3 THEN 4 ELSE limit
    IN  IF Len(long_string) > lim
        THEN SubSeq(long_string, 1, lim - 3) \o tEllipsis
        ELSE long_string

\* The limit export_csv_data_to_disk passes at line 369.
ExcelCellLimit == 32750

----------------------------------------------------------------------------
(* Text forms.                                                             *)

Digit(n) == <<"0", "1", "2", "3", "4", "5", "6", "7", "8", "9">>[n + 1]

RECURSIVE IntText(_)
IntText(n) == IF n < 10 THEN <<Digit(n)>> ELSE IntText(n \div 10) \o <<Digit(n % 10)>>

\* str(val), line 369 (scalars only).
PyStr(v) ==
    CASE v.tag = "str" -> v.s
      [] v.tag = "bool" -> IF v.b THEN tTrueStr ELSE tFalseStr
      [] v.tag = "int" -> IntText(v.n)
      [] OTHER -> tNoneStr

\* The text csv.writer writes for a field: None is written as the empty string.
CellText(v) == IF v.tag = "none" THEN tEmpty ELSE PyStr(v)

----------------------------------------------------------------------------
(* The caller's value.  The top-level list or dict holds references to the *)
(* nested dict objects on the heap; the heap is the sequence of objects.   *)

\* "data is None or not data", line 324.
IsFalsy(d) == d = NoneV \/ d = ListV(<<>>) \/ d = DictV(<<>>)

\* The value with every reference replaced by the object it points to.
Deref(v, h) == IF v.tag = "ref" THEN DictV(h[v.a]) ELSE v

Deep(d, h) ==
    CASE d.tag = "list" -> ListV([i \in 1..Len(d.xs) |-> Deref(d.xs[i], h)])
      [] d.tag = "dict" -> DictV([i \in 1..Len(d.d) |-> Entry(d.d[i].k, Deref(d.d[i].v, h))])
      [] OTHER -> d

Shift(v, n) == IF v.tag = "ref" THEN RefV(v.a + n) ELSE v

\* No copy at all: the exporter works on the caller's own objects.
deepcopy_aliased(d, h) == [heap |-> h, value |-> d]

\* copy.deepcopy(data), line 330: every nested object is copied to a fresh
\* address and the copy refers to the copies.
deepcopy(d, h) ==
    [heap |-> h \o h,
     value |-> CASE d.tag = "list" -> ListV([i \in 1..Len(d.xs) |-> Shift(d.xs[i], Len(h))])
                 [] d.tag = "dict" -> DictV([i \in 1..Len(d.d) |->
                                               Entry(d.d[i].k, Shift(d.d[i].v, Len(h)))])
                 [] OTHER -> d]

----------------------------------------------------------------------------
(* export_csv_data_to_disk, lines 270-370.                                 *)

\* The vertical table with the first pair kept as a row as well.
FlatRows_keeping_first(d) ==
    [i \in 1..Len(d) |-> DictFromPairs(<<Entry(d[1].k, d[i].k), Entry(d[1].v, d[i].v)>>)]

\* Lines 344-354: the vertical table of a flat dict.  The first pair gives
\* the two headers, every later pair a new dict {headers[0]: k, headers[1]: v}.
FlatRows(d) ==
    [i \in 1..(Len(d) - 1) |->
        DictFromPairs(<<Entry(d[1].k, d[i + 1].k), Entry(d[1].v, d[i + 1].v)>>)]

\* Lines 332-357: the field names and the items the writing loop iterates.
Shape(d, h, copy, headers) ==
    IF headers.given
    THEN [hdrs |-> [i \in 1..Len(headers.names) |-> StrV(headers.names[i])],
          items |-> IF copy.value.tag = "dict" THEN DictKeys(copy.value.d) ELSE copy.value.xs,
          heap |-> copy.heap]
    ELSE IF copy.value.tag = "dict"
    THEN IF copy.value.d[1].v.tag = "ref"
         THEN [hdrs |-> DictKeys(copy.heap[copy.value.d[1].v.a]),
               items |-> [i \in 1..Len(copy.value.d) |-> copy.value.d[i].v],
               heap |-> copy.heap]
         ELSE [hdrs |-> <<copy.value.d[1].k, copy.value.d[1].v>>,
               items |-> [i \in 1..(Len(copy.value.d) - 1) |-> RefV(Len(copy.heap) + i)],
               heap |-> copy.heap \o FlatRows(copy.value.d)]
    ELSE [hdrs |-> DictKeys(h[d.xs[1].a]),
          items |-> copy.value.xs,
          heap |-> copy.heap]

\* Lines 367-369: every value of the item becomes its trimmed string form.
TrimItem(item) ==
    [i \in 1..Len(item) |->
        Entry(item[i].k, StrV(enforce_excel_cell_string_limit(PyStr(item[i].v), ExcelCellLimit)))]

\* DictWriter.writerow with restval '' and extrasaction 'ignore'.
RowLine(item, hdrs, h) ==
    IF item.tag # "ref" THEN <<>>
    ELSE [i \in 1..Len(hdrs) |-> CellText(DictGet(h[item.a], hdrs[i], StrV(tEmpty)))]

RECURSIVE WriteRows(_, _, _, _, _)
\* Lines 365-370.  An item that is not a dict has no items() (line 367) and
\* no get() (DictWriter._dict_to_list, evaluated once per field name).
WriteRows(items, hdrs, trim, h, lines) ==
    IF items = <<>> THEN [heap |-> h, lines |-> lines, exc |-> ""]
    ELSE LET item == Head(items)
         IN  IF trim /\ item.tag # "ref"
             THEN [heap |-> h, lines |-> lines, exc |-> "AttributeError"]
             ELSE LET h1 == IF trim THEN [h EXCEPT ![item.a] = TrimItem(@)] ELSE h
                  IN  IF item.tag # "ref" /\ Len(hdrs) > 0
                      THEN [heap |-> h1, lines |-> lines, exc |-> "AttributeError"]
                      ELSE WriteRows(Tail(items), hdrs, trim, h1,
                                     Append(lines, RowLine(item, hdrs, h1)))

\* The result of an export: its outcome, the file and directory it leaves,
\* the heap, the field names and the rows handed to the writer.
ExportResult(out, f, dir, h, hdrs, rows) ==
    [out |-> out, file |-> f, dir |-> dir, heap |-> h, hdrs |-> hdrs, rows |-> rows]

export_csv_data_to_disk(f, dir, d, h, headers, trim) ==
    IF IsFalsy(d)
    THEN ExportResult(Returned(NoneV, <<"Nothing to export.">>), f, dir, h, <<>>, <<>>)
    ELSE LET copy == deepcopy(d, h)
             shape == Shape(d, h, copy, headers)
             written == WriteRows(shape.items, shape.hdrs, trim, shape.heap,
                                  <<[i \in 1..Len(shape.hdrs) |-> CellText(shape.hdrs[i])]>>)
             rows == [i \in 1..Len(shape.items) |-> Deref(shape.items[i], written.heap)]
         IN  IF ~dir
             THEN \* open(filepath, 'w') in a directory that does not exist
                  ExportResult(Raised("FileNotFoundError", <<>>), f, dir, shape.heap,
                               shape.hdrs, <<>>)
             ELSE ExportResult(IF written.exc = "" THEN Returned(NoneV, <<>>)
                                                   ELSE Raised(written.exc, <<>>),
                               CsvFile(FALSE, TRUE, written.lines), dir, written.heap,
                               shape.hdrs, rows)

----------------------------------------------------------------------------
(* export_json_data_to_disk, lines 215-249.                                *)

\* The JSON exporter making the directory before it looks at the data.
export_json_mkdir_first(f, dir, d, h) ==
    IF d = NoneV
    THEN ExportResult(Returned(NoneV, <<"Nothing to export.">>), f, TRUE, h, <<>>, <<>>)
    ELSE ExportResult(Returned(NoneV, <<>>), JsonFile(Deep(d, h)), TRUE, h, <<>>, <<>>)

export_json_data_to_disk(f, dir, d, h) ==
    IF d = NoneV
    THEN ExportResult(Returned(NoneV, <<"Nothing to export.">>), f, dir, h, <<>>, <<>>)
    ELSE \* the directory is made when missing, then the document is dumped
         ExportResult(Returned(NoneV, <<>>), JsonFile(Deep(d, h)), TRUE, h, <<>>, <<>>)

----------------------------------------------------------------------------
(* export_data_to_disk, lines 179-212.                                     *)

export_data_to_disk(ext, f, dir, d, h, headers, trim) ==
    IF ext = ".json" THEN export_json_data_to_disk(f, dir, d, h)
    ELSE IF ext = ".csv" THEN export_csv_data_to_disk(f, dir, d, h, headers, trim)
    ELSE ExportResult(Raised("SystemExit", <<>>), f, dir, h, <<>>, <<>>)

----------------------------------------------------------------------------
(* The inputs.                                                             *)

SeqsUpTo(S, lo, hi) == UNION {[1..n -> S] : n \in lo..hi}

FieldNames == {tA, tB}

\* Lists of distinct field names.
KeySeqs ==
    {ks \in SeqsUpTo(FieldNames, 0, Cardinality(FieldNames)) :
        \A i, j \in 1..Len(ks) : i # j => ks[i] # ks[j]}

HeaderArgs == {NoHeaders} \cup {Headers(ks) : ks \in KeySeqs}

\* The cells of the CSV files read.
FileCells == {tX, tTrueUpper, tFalseMixed}

FileRows == SeqsUpTo(FileCells, 0, MaxFields)

CsvFiles ==
    {CsvFile(TRUE, FALSE, <<>>), CsvFile(FALSE, FALSE, <<>>)}
    \cup {CsvFile(FALSE, TRUE, ls) : ls \in SeqsUpTo(FileRows, 1, MaxRows)}

\* A text longer than the limit, and one exactly at it.
LongText == [i \in 1..(ExcelCellLimit + 1) |-> IF i % 2 = 0 THEN "y" ELSE "x"]
LimitText == SubSeq(LongText, 1, ExcelCellLimit)

NestedValues == {StrV(tX), BoolV(FALSE)}

MappingsOver(V) ==
    UNION {{[i \in 1..Len(ks) |-> Entry(StrV(ks[i]), vs[i])] : vs \in [1..Len(ks) -> V]} :
           ks \in KeySeqs}

\* The top-level list or dict referring to the n objects of the heap.
ListOf(n) == ListV([i \in 1..n |-> RefV(i)])
OuterKey(i) == StrV(<<"k">> \o IntText(i))
DictOf(n) == DictV([i \in 1..n |-> Entry(OuterKey(i), RefV(i))])

FlatKey(i) == StrV(<<<<"a">>, <<"b">>, <<"x">>, <<"y">>, <<"z">>>>[i])
FlatValues == {StrV(tA), StrV(tB), BoolV(TRUE), NoneV, IntV(7)}
FlatDicts ==
    UNION {{DictV([i \in 1..n |-> Entry(FlatKey(i), vs[i])]) : vs \in [1..n -> FlatValues]} :
           n \in 1..MaxPairs}

\* Records with the values the nested records above leave out.
ExtraHeaps ==
    {<<<<Entry(StrV(tA), StrV(LongText)), Entry(StrV(tB), BoolV(TRUE))>>>>,
     <<<<Entry(StrV(tA), StrV(LimitText))>>>>,
     <<<<Entry(StrV(tA), NoneV), Entry(StrV(tB), StrV(tTrueLower))>>,
       <<Entry(StrV(tA), StrV(tTruex)), Entry(StrV(tB), StrV(tEmpty))>>>>}

\* The values the caller may hold: [data, heap].
Inputs ==
    {[data |-> d, heap |-> <<>>] : d \in {ListV(<<>>), DictV(<<>>)} \cup FlatDicts}
    \cup UNION {{[data |-> ListOf(Len(h)), heap |-> h], [data |-> DictOf(Len(h)), heap |-> h]} :
                 h \in SeqsUpTo(MappingsOver(NestedValues), 1, MaxItems) \cup ExtraHeaps}

TrimTexts == {SubSeq(<<"a", "b", "c", "d", "e", "f", "g", "h", "i", "j", "k", "l", "m",
                       "n", "o", "p", "q", "r", "s", "t", "u", "v", "w", "x", "y", "z">>,
                     1, n) : n \in 0..MaxStrLen}
                 \cup {LongText, LimitText}

TrimLimits == (-1..MaxLimit) \cup {ExcelCellLimit}

----------------------------------------------------------------------------
(* The state: the output directory and the file at the path, the caller's  *)
(* value, and the record of the last call of each operation.               *)

NoCall == [called |-> FALSE]

ImportCall(headers, out) == [called |-> TRUE, headers |-> headers, out |-> out]

ExportCall(ext, headers, trim, res, before, fileBefore, dirBefore) ==
    [called |-> TRUE, ext |-> ext, headers |-> headers, trim |-> trim,
     out |-> res.out, hdrs |-> res.hdrs, rows |-> res.rows,
     dataBefore |-> before, fileBefore |-> fileBefore, dirBefore |-> dirBefore]

TrimCall(s, limit, result) == [called |-> TRUE, s |-> s, limit |-> limit, result |-> result]

Init ==
    /\ dirExists \in BOOLEAN
    /\ file = NoFile
    /\ data = NoneV
    /\ heap = <<>>
    /\ imp = NoCall
    /\ exp = NoCall
    /\ trimmed = NoCall

Fresh == file = NoFile /\ data = NoneV /\ heap = <<>> /\ ~imp.called /\ ~exp.called
         /\ ~trimmed.called

\* A CSV file is put at the path.
PutFile ==
    /\ Fresh /\ dirExists
    /\ \E f \in CsvFiles : file' = f
    /\ UNCHANGED <<dirExists, data, heap, imp, exp, trimmed>>

\* The caller builds the value to export.
SetData ==
    /\ Fresh
    /\ \E inp \in Inputs : data' = inp.data /\ heap' = inp.heap
    /\ UNCHANGED <<dirExists, file, imp, exp, trimmed>>

\* import_csv_from_disk(filepath, headers) on the file at the path.  After an
\* export it re-reads the written file with no headers.
ImportCsv ==
    /\ ~imp.called /\ ~trimmed.called
    /\ file.kind = "csv"
    /\ \E headers \in HeaderArgs :
         /\ exp.called => headers = NoHeaders
         /\ imp' = ImportCall(headers, import_csv_from_disk(file, headers))
    /\ UNCHANGED <<dirExists, file, data, heap, exp, trimmed>>

Export(ext, headers, trim) ==
    /\ ~imp.called /\ ~exp.called /\ ~trimmed.called
    /\ file = NoFile
    /\ LET res == export_data_to_disk(ext, file, dirExists, data, heap, headers, trim)
       IN  /\ file' = res.file
           /\ dirExists' = res.dir
           /\ heap' = res.heap
           /\ exp' = ExportCall(ext, headers, trim, res, Deep(data, heap), file, dirExists)
    /\ UNCHANGED <<data, imp, trimmed>>

\* export_data_to_disk to a .csv path.
ExportCsv == \E headers \in HeaderArgs, trim \in BOOLEAN : Export(".csv", headers, trim)

\* export_data_to_disk to a .json path.
ExportJson == Export(".json", NoHeaders, FALSE)

\* export_data_to_disk to a path with any other extension.
ExportOther == Export(".xml", NoHeaders, FALSE)

\* enforce_excel_cell_string_limit(s, limit)
Trim ==
    /\ Fresh
    /\ \E s \in TrimTexts, limit \in TrimLimits :
         trimmed' = TrimCall(s, limit, enforce_excel_cell_string_limit(s, limit))
    /\ UNCHANGED <<dirExists, file, data, heap, imp, exp>>

Next == PutFile \/ SetData \/ ImportCsv \/ ExportCsv \/ ExportJson \/ ExportOther \/ Trim

Spec == Init /\ [][Next]_vars

\* The importer alone.
NextImport == PutFile \/ ImportCsv

SpecImport == Init /\ [][NextImport]_vars

\* The exporters and the trimming helper.
NextExport == SetData \/ ExportCsv \/ ExportJson \/ ExportOther \/ Trim

SpecExport == Init /\ [][NextExport]_vars

----------------------------------------------------------------------------
(* Helpers of the properties.                                              *)

\* The records of an import result: the single record, or those of the list.
Records(v) == IF v.tag = "dict" THEN <<v>> ELSE v.xs

NonBlank(lines) == SelectSeq(lines, LAMBDA l : l # <<>>)

\* The file was sniffed and parsed.
Parsed == file.kind = "csv" /\ ~file.empty /\ file.sniff

\* The value a cell text is to be imported as.
Typed(cell) ==
    IF lower(cell) = tTrueLower THEN BoolV(TRUE)
    ELSE IF lower(cell) = tFalseLower THEN BoolV(FALSE)
    ELSE StrV(cell)

KeySet(d) == {d[i].k : i \in 1..Len(d)}

Range(seq) == {seq[i] : i \in 1..Len(seq)}

\* The value is absent (None) or empty.
AbsentOrEmpty(d) == d = NoneV \/ d = ListV(<<>>) \/ d = DictV(<<>>)

NothingToExport == <<"Nothing to export.">>

\* A flat mapping: a non-empty dict whose values are scalars.
IsFlat(d) == d.tag = "dict" /\ Len(d.d) > 0 /\ \A i \in 1..Len(d.d) : d.d[i].v.tag # "dict"

\* A non-empty list of mappings with the same keys in the same order.
IsUniformList(d) ==
    /\ d.tag = "list" /\ Len(d.xs) > 0
    /\ \A i \in 1..Len(d.xs) :
         /\ d.xs[i].tag = "dict"
         /\ Len(d.xs[i].d) > 0
         /\ DictKeys(d.xs[i].d) = DictKeys(d.xs[1].d)

\* The items of the caller's value that become rows: the elements of a list,
\* the nested mappings of a mapping of mappings.
ItemsOf(d) == IF d.tag = "list" THEN d.xs ELSE [i \in 1..Len(d.d) |-> d.d[i].v]

----------------------------------------------------------------------------
(* The importer.                                                           *)

\* C1: importing an existing file that is empty or cannot be sniffed or
\* parsed reports the condition and returns None; it does not raise.
C1_EmptyOrMalformedReturnsNone ==
    (imp.called /\ file.kind = "csv" /\ (file.empty \/ ~file.sniff)) =>
        /\ imp.out.kind = "returned"
        /\ imp.out.value = NoneV
        /\ imp.out.msgs # <<>>

\* C2: every row read comes back as a mapping with exactly the header names
\* as keys: a header past the end of a short row maps to None, and the values
\* of a long row past the last header appear nowhere in the mapping.
C2_RowWidthReconciled ==
    (imp.called /\ ~exp.called /\ Parsed) =>
        /\ imp.out.kind = "returned"
        /\ LET fn == Fieldnames(file, imp.headers)
               rows == NonBlank(DataLines(file, imp.headers))
               recs == Records(imp.out.value)
           IN  /\ Len(recs) = Len(rows)
               /\ \A r \in 1..Len(recs) :
                    /\ KeySet(recs[r].d) = Range(fn)
                    /\ \A i \in 1..Len(fn) :
                         i > Len(rows[r]) => DictGet(recs[r].d, fn[i], StrV(tEmpty)) = NoneV

\* C3: every cell of every row the importer returns is the logical value when
\* its text is "true" or "false" in any letter case, and its text otherwise.
C3_BooleansRestored ==
    (imp.called /\ ~exp.called /\ Parsed /\ imp.out.kind = "returned") =>
        LET fn == Fieldnames(file, imp.headers)
            rows == NonBlank(DataLines(file, imp.headers))
            recs == Records(imp.out.value)
            \* the value cell i of the row is returned as
            ValueOf(rec, i) ==
                IF i <= Len(fn) THEN DictGet(rec, fn[i], NoneV)
                ELSE DictGet(rec, NoneV, ListV(<<>>)).xs[i - Len(fn)]
        IN  \A r \in 1..Len(recs) : \A i \in 1..Len(rows[r]) :
                (\A j \in (i + 1)..Min(Len(fn), Len(rows[r])) : fn[j] # fn[i]) =>
                    ValueOf(recs[r].d, i) = Typed(rows[r][i])

\* C4: the importer returns the record itself exactly when one record was
\* parsed, and the list of records for any other number.
C4_SingletonCollapsed ==
    (imp.called /\ ~exp.called /\ Parsed) =>
        LET n == Len(NonBlank(DataLines(file, imp.headers)))
        IN  /\ imp.out.kind = "returned"
            /\ n = 1 => imp.out.value.tag = "dict"
            /\ n # 1 => imp.out.value.tag = "list" /\ Len(imp.out.value.xs) = n

----------------------------------------------------------------------------
(* The exporters.                                                          *)

CsvExported == exp.called /\ exp.ext = ".csv"

\* C5: the CSV exporter leaves the caller's value as it was, every nested
\* mapping and every cell included, whatever the shape, headers and trimming.
C5_CallerDataUntouched ==
    CsvExported => Deep(data, heap) = exp.dataBefore

\* A list was exported with trimming on and the rows written are no longer
\* the caller's records.
C5_Witness ==
    /\ CsvExported /\ exp.trim /\ exp.out.kind = "returned"
    /\ data.tag = "list" /\ Len(exp.rows) > 0
    /\ ListV(exp.rows) # exp.dataBefore

\* C6: a flat mapping exported with no headers gives the headers
\* [first_key, first_value] and, for every later pair (k, v) in order, the row
\* {first_key: k, first_value: v} (a mapping literal: when first_key equals
\* first_value the later entry stands); the first pair is not a row.
C6_FlatMappingVertical ==
    (CsvExported /\ ~exp.headers.given /\ ~exp.trim /\ exp.dirBefore /\ IsFlat(exp.dataBefore)) =>
        LET d == exp.dataBefore.d
            k0 == d[1].k
            v0 == d[1].v
        IN  /\ exp.out.kind = "returned"
            /\ exp.hdrs = <<k0, v0>>
            /\ Len(exp.rows) = Len(d) - 1
            /\ \A i \in 1..Len(exp.rows) :
                 /\ exp.rows[i].tag = "dict"
                 /\ KeySet(exp.rows[i].d) = {k0, v0}
                 /\ DictGet(exp.rows[i].d, v0, NoneV) = d[i + 1].v
                 /\ k0 # v0 => DictGet(exp.rows[i].d, k0, NoneV) = d[i + 1].k
            /\ Len(file.lines) = Len(d)
            /\ file.lines[1] = <<CellText(k0), CellText(v0)>>
            /\ \A i \in 1..Len(exp.rows) :
                 file.lines[i + 1][2] = CellText(d[i + 1].v)

\* A flat mapping of three pairs with distinct headers was exported.
C6_Witness ==
    /\ CsvExported /\ ~exp.headers.given /\ ~exp.trim /\ exp.dirBefore
    /\ IsFlat(exp.dataBefore) /\ Len(exp.dataBefore.d) = 3
    /\ exp.dataBefore.d[1].k # exp.dataBefore.d[1].v
    /\ Len(exp.rows) = 2

\* C7 as stated: exporting None or an empty value to .json or .csv reports
\* "Nothing to export.", writes no file and does not create the directory.
C7_NothingToExport ==
    (exp.called /\ exp.ext \in {".json", ".csv"} /\ AbsentOrEmpty(data)) =>
        /\ exp.out.kind = "returned"
        /\ exp.out.msgs = NothingToExport
        /\ file = exp.fileBefore
        /\ dirExists = exp.dirBefore

\* C7 amended: exporting None to .json or .csv, or an empty value to .csv,
\* reports "Nothing to export.", writes no file and does not create the
\* directory; an empty value that is not None exported to .json reports
\* nothing, and the file is written in a directory that then exists.
C7_NothingToExportAmended ==
    /\ (exp.called /\ (\/ exp.ext \in {".json", ".csv"} /\ data = NoneV
                       \/ exp.ext = ".csv" /\ AbsentOrEmpty(data))) =>
          /\ exp.out.kind = "returned"
          /\ exp.out.msgs = NothingToExport
          /\ file = exp.fileBefore
          /\ dirExists = exp.dirBefore
    /\ (exp.called /\ exp.ext = ".json" /\ AbsentOrEmpty(data) /\ data # NoneV) =>
          /\ exp.out.kind = "returned"
          /\ exp.out.msgs = <<>>
          /\ file = JsonFile(data)
          /\ dirExists

\* None was exported to .json with the output directory missing.
C7_Witness ==
    /\ exp.called /\ exp.ext = ".json" /\ data = NoneV
    /\ ~exp.dirBefore /\ exp.out.msgs = NothingToExport

\* C8: with a headers list supplied, exporting a non-empty value of any
\* supported shape never errors: the header row comes first, then one line
\* per row, a missing header being an empty cell and other keys left out.
C8_SuppliedHeadersNeverError ==
    (CsvExported /\ exp.headers.given /\ exp.dirBefore /\ ~AbsentOrEmpty(data)) =>
        /\ exp.out.kind = "returned"
        /\ file.kind = "csv"
        /\ Len(file.lines) = 1 + Len(exp.rows)
        /\ file.lines[1] = exp.headers.names
        /\ \A i \in 1..Len(exp.rows) : exp.rows[i].tag = "dict" =>
             /\ Len(file.lines[i + 1]) = Len(exp.headers.names)
             /\ \A j \in 1..Len(exp.headers.names) :
                  file.lines[i + 1][j] =
                      IF StrV(exp.headers.names[j]) \in KeySet(exp.rows[i].d)
                      THEN CellText(DictGet(exp.rows[i].d, StrV(exp.headers.names[j]), NoneV))
                      ELSE tEmpty

C10_Truncation ==
    /\ trimmed.called =>
         LET eff == IF trimmed.limit <= 3 THEN 4 ELSE trimmed.limit
             n == Len(trimmed.result)
         IN  IF Len(trimmed.s) > eff
             THEN /\ n = eff
                  /\ \A i \in 1..(eff - 3) : trimmed.result[i] = trimmed.s[i]
                  /\ SubSeq(trimmed.result, n - 2, n) = tEllipsis
             ELSE trimmed.result = trimmed.s
    /\ (CsvExported /\ exp.trim /\ exp.out.kind = "returned" /\ ~exp.headers.given
        /\ ~AbsentOrEmpty(exp.dataBefore) /\ ~IsFlat(exp.dataBefore)) =>
         LET items == ItemsOf(exp.dataBefore)
         IN  /\ Len(exp.rows) = Len(items)
             /\ \A i \in 1..Len(items) :
                  /\ Len(exp.rows[i].d) = Len(items[i].d)
                  /\ \A j \in 1..Len(items[i].d) :
                       LET text == PyStr(items[i].d[j].v)
                           cell == exp.rows[i].d[j].v
                       IN  /\ exp.rows[i].d[j].k = items[i].d[j].k
                           /\ cell.tag = "str"
                           /\ IF Len(text) > ExcelCellLimit
                              THEN /\ Len(cell.s) = ExcelCellLimit
                                   /\ SubSeq(cell.s, 1, ExcelCellLimit - 3)
                                        = SubSeq(text, 1, ExcelCellLimit - 3)
                                   /\ SubSeq(cell.s, ExcelCellLimit - 2, ExcelCellLimit) = tEllipsis
                              ELSE cell.s = text

\* The helper was called with a limit of 3 or less on a string longer than 4
\* characters, and returned one character and the ellipsis.
C10_Witness ==
    /\ trimmed.called /\ trimmed.limit <= 3 /\ Len(trimmed.s) > 4
    /\ Len(trimmed.result) = 4

====
